---- MODULE Spec2Model ----
(***************************************************************************)
(* Rates_update.py: a batch run that loads the static index catalogue,     *)
(* recovers factsheet links from a previously written coverage CSV, merges *)
(* the location variants of each index into one row, sorts the rows by     *)
(* ticker and writes the full and the filtered CSV files.                  *)
(*                                                                         *)
(* Strings are TLA+ strings handled character by character with Len,       *)
(* SubSeq and \o.  A record is the 8-tuple of the source; Python index k   *)
(* is index k+1 here (the ticker, Python item[3], is it[4]; the factsheet, *)
(* Python item[7] or item[-1], is it[8]).                                  *)
(***************************************************************************)
EXTENDS Integers, Sequences, FiniteSets, TLC

VARIABLES
    pc,                          \* position of the run inside pull_and_save_data_to_csv
    coverage_csv,                \* Reference_Rates_Coverage.csv: NoFile or its lines
    filtered_csv,                \* Reference_Rates_With_Factsheets.csv: NoFile or its lines
    prior_csv,                   \* what coverage_csv held when the current run read it
    existing_fact_sheets,        \* the dict returned by get_existing_fact_sheets
    fixed_items_with_fact_sheets,\* the records entering the merge
    merged_items,                \* the result of merge_location_variants
    all_items,                   \* merged_items sorted by ticker
    runs,                        \* completed or crashed runs so far
    edits,                       \* edits made to the coverage file outside the program
    passes                       \* list-level merges applied (merge specification)

vars == <<pc, coverage_csv, filtered_csv, prior_csv, existing_fact_sheets,
          fixed_items_with_fact_sheets, merged_items, all_items, runs, edits, passes>>

----------------------------------------------------------------------------
(* Bounds *)

MaxRuns == 2
MaxEdits == 1
MaxItems == 4
MaxPasses == 2

----------------------------------------------------------------------------
(* Python string primitives *)

Char(s, i) == SubSeq(s, i, i)

\* str.endswith
EndsWith(s, suffix) ==
    /\ Len(s) >= Len(suffix)
    /\ SubSeq(s, Len(s) - Len(suffix) + 1, Len(s)) = suffix

\* pattern in s
Contains(s, pattern) ==
    \E i \in 1..(Len(s) - Len(pattern) + 1) : SubSeq(s, i, i + Len(pattern) - 1) = pattern

\* positions of the character c in s
Positions(s, c) == {i \in 1..Len(s) : Char(s, i) = c}

\* the sequence f itself, held as an evaluated tuple
AsTuple(f) == f \o <<>>

Min(S) == CHOOSE x \in S : \A y \in S : x <= y

Max(S) == CHOOSE x \in S : \A y \in S : y <= x

\* the characters str.strip() removes that can occur inside one CSV line
Whitespace == {" ", "\t"}

\* str.strip(): what lies between the first and the last character that is
\* not whitespace
Strip(s) ==
    IF \A i \in 1..Len(s) : Char(s, i) \in Whitespace THEN ""
    ELSE LET first == CHOOSE i \in 1..Len(s) :
                         /\ Char(s, i) \notin Whitespace
                         /\ \A j \in 1..(i - 1) : Char(s, j) \in Whitespace
             back == CHOOSE k \in 0..(Len(s) - 1) :
                         /\ Char(s, Len(s) - k) \notin Whitespace
                         /\ \A j \in 0..(k - 1) : Char(s, Len(s) - j) \in Whitespace
         IN  SubSeq(s, first, Len(s) - back)

\* positions where pattern occurs in s
Occurrences(s, pattern) ==
    {i \in 1..(Len(s) - Len(pattern) + 1) : SubSeq(s, i, i + Len(pattern) - 1) = pattern}

\* s from position from on, with the occurrences of old among hits replaced
\* from left to right; an occurrence overlapping a replaced one is passed over
RECURSIVE ReplaceFrom(_, _, _, _, _)
ReplaceFrom(s, old, new, hits, from) ==
    LET next == {h \in hits : h >= from}
    IN  IF next = {} THEN SubSeq(s, from, Len(s))
        ELSE SubSeq(s, from, Min(next) - 1) \o new
                \o ReplaceFrom(s, old, new, hits, Min(next) + Len(old))

\* str.replace(old, new): the leftmost occurrence is replaced and the search
\* goes on after it, so occurrences never overlap and the result is not rescanned
Replace(s, old, new) == ReplaceFrom(s, old, new, Occurrences(s, old), 1)

\* sep.join(parts)
RECURSIVE Join(_, _)
Join(parts, sep) ==
    IF parts = <<>> THEN ""
    ELSE IF Len(parts) = 1 THEN parts[1]
    ELSE parts[1] \o sep \o Join(Tail(parts), sep)

\* the printable ASCII characters in code point order: 32..95 and 97..126
\* (the grave accent, 96, cannot be written in a TLA+ string and is left out)
AsciiLow == " !\"#$%&'()*+,-./0123456789:;<=>?@ABCDEFGHIJKLMNOPQRSTUVWXYZ[\\]^_"

AsciiHigh == "abcdefghijklmnopqrstuvwxyz{|}~"

\* ord(c)
Ord == [c \in {Char(AsciiLow, i) : i \in 1..Len(AsciiLow)}
              \cup {Char(AsciiHigh, i) : i \in 1..Len(AsciiHigh)} |->
            IF \E i \in 1..Len(AsciiLow) : Char(AsciiLow, i) = c
            THEN 31 + (CHOOSE i \in 1..Len(AsciiLow) : Char(AsciiLow, i) = c)
            ELSE 96 + (CHOOSE i \in 1..Len(AsciiHigh) : Char(AsciiHigh, i) = c)]

\* Python's s < t on str: decided at the first position where they differ,
\* a proper prefix is smaller
StrLess(s, t) ==
    LET n == IF Len(s) < Len(t) THEN Len(s) ELSE Len(t)
    IN  IF \A i \in 1..n : Char(s, i) = Char(t, i) THEN Len(s) < Len(t)
        ELSE LET d == CHOOSE i \in 1..n :
                          /\ Char(s, i) # Char(t, i)
                          /\ \A j \in 1..(i - 1) : Char(s, j) = Char(t, j)
             IN  Ord[Char(s, d)] < Ord[Char(t, d)]

----------------------------------------------------------------------------
(* Base ticker and location *)

Suffixes == <<"NYC", "LDN", "SGP">>

HasSuffix(ticker) == \E k \in 1..Len(Suffixes) : EndsWith(ticker, Suffixes[k])

get_base_ticker(ticker) ==
    IF EndsWith(ticker, "NYC") THEN SubSeq(ticker, 1, Len(ticker) - 3)
    ELSE IF EndsWith(ticker, "LDN") THEN SubSeq(ticker, 1, Len(ticker) - 3)
    ELSE IF EndsWith(ticker, "SGP") THEN SubSeq(ticker, 1, Len(ticker) - 3)
    ELSE ticker

----------------------------------------------------------------------------
(* The static catalogue *)

factsheet_blue_chip == "<a href=\"https://marketing.kaiko.com/hubfs/Factsheets%20and%20Methodologies/New%20Benchmark%20Factsheets/Kaiko%20Benchmarks%20-%20Blue-Chip%20family%20factsheet.pdf\" target=\"_blank\">View Factsheet</a>"
factsheet_sector_thematic == "<a href=\"https://marketing.kaiko.com/hubfs/Factsheets%20and%20Methodologies/New%20Benchmark%20Factsheets/Kaiko%20Benchmarks%20-%20Sector%20&%20Thematic%20family%20factsheet.pdf\" target=\"_blank\">View Factsheet</a>"
factsheet_market == "<a href=\"https://marketing.kaiko.com/hubfs/Factsheets%20and%20Methodologies/New%20Benchmark%20Factsheets/Kaiko%20Benchmarks%20-%20Market%20family%20factsheet.pdf\" target=\"_blank\">View Factsheet</a>"
get_fixed_entries ==
  <<
    <<"Kaiko", "Blue-Chip", "Kaiko Eagle Index", "EGLX", "NYC Fixing", "February 11, 2025", "February 11, 2025", factsheet_blue_chip>>,
    <<"Kaiko", "Blue-Chip", "Kaiko Eagle Index", "EGLXRT", "Real-time (5 sec)", "February 11, 2025", "February 11, 2025", factsheet_blue_chip>>,
    <<"Kaiko", "Blue-Chip", "Kaiko 5 Index", "KT5", "Real-time (5 sec)", "October 17, 2023", "March 19, 2018", factsheet_blue_chip>>,
    <<"Kaiko", "Blue-Chip", "Kaiko 5 Index NYC", "KT5NYC", "NYC Fixing", "October 17, 2023", "March 19, 2018", factsheet_blue_chip>>,
    <<"Kaiko", "Blue-Chip", "Kaiko 5 Index LDN", "KT5LDN", "LDN Fixing", "October 17, 2023", "March 19, 2018", factsheet_blue_chip>>,
    <<"Kaiko", "Blue-Chip", "Kaiko 5 Index SGP", "KT5SGP", "SGP Fixing", "October 17, 2023", "March 19, 2018", factsheet_blue_chip>>,
    <<"Kaiko", "Blue-Chip", "Kaiko 10 Index", "KT10", "Real-time (5 sec)", "October 17, 2023", "March 18, 2019", factsheet_blue_chip>>,
    <<"Kaiko", "Blue-Chip", "Kaiko 10 Index NYC", "KT10NYC", "NYC Fixing", "October 17, 2023", "March 18, 2019", factsheet_blue_chip>>,
    <<"Kaiko", "Blue-Chip", "Kaiko 10 Index LDN", "KT10LDN", "LDN Fixing", "October 17, 2023", "March 18, 2019", factsheet_blue_chip>>,
    <<"Kaiko", "Blue-Chip", "Kaiko 10 Index SGP", "KT10SGP", "SGP Fixing", "October 17, 2023", "March 18, 2019", factsheet_blue_chip>>,
    <<"Kaiko", "Blue-Chip", "Kaiko 15 Index", "KT15", "Real-time (5 sec)", "October 17, 2023", "December 23, 2019", factsheet_blue_chip>>,
    <<"Kaiko", "Blue-Chip", "Kaiko 15 Index NYC", "KT15NYC", "NYC Fixing", "October 17, 2023", "December 23, 2019", factsheet_blue_chip>>,
    <<"Kaiko", "Blue-Chip", "Kaiko 15 Index LDN", "KT15LDN", "LDN Fixing", "October 17, 2023", "December 23, 2019", factsheet_blue_chip>>,
    <<"Kaiko", "Blue-Chip", "Kaiko 15 Index SGP", "KT15SGP", "SGP Fixing", "October 17, 2023", "December 23, 2019", factsheet_blue_chip>>,
    <<"Kaiko", "Blue-Chip", "Vinter 21Shares Crypto Basket Equal Weight Index ", "HODLV", "LDN Fixing", "September 29, 2021", "January 01, 2021", "<a href=\"https://marketing.kaiko.com/hubfs/Factsheets%20and%20Methodologies/multi-asset_hodlv_end=2025-03-12&start=2020-12-31.pdf\" target=\"_blank\">View Factsheet</a>">>,
    <<"Kaiko", "Blue-Chip", "Vinter 21Shares Crypto Basket 10 Index", "HODLX", "LDN Fixing", "September 29, 2021", "January 01, 2021", "<a target=\"_blank\">Coming Soon</a>">>,
    <<"Kaiko", "Blue-Chip", "Vinter Valour Digital Asset Basket 10 Index", "VDAB10", "LDN Fixing", "July 21, 2022", "January 01, 2021", "<a href=\"https://marketing.kaiko.com/hubfs/Factsheets%20and%20Methodologies/VDAB10%20-%20Fact%20Sheet%20-%20multi-asset_vdab10_end=2025-03-12&start=2020-12-31.pdf\" target=\"_blank\">View Factsheet</a>">>,
    <<"Kaiko", "Blue-Chip", "Vinter Pando Crypto Basket 6 Index ", "PANDO6", "17:00 CET Fixing", "July 21, 2022", "January 01, 2021", "<a href=\"https://marketing.kaiko.com/hubfs/Factsheets%20and%20Methodologies/PANDO6%20-%20Fact%20Sheet%20-%20multi-asset_pando6_end=2025-03-12&start=2020-12-31.pdf\" target=\"_blank\">View Factsheet</a>">>,
    <<"Kaiko", "Blue-Chip", "Virtune Vinter Crypto Top 10 Index", "VVT10", "17:00 CET Fixing", "March 31, 2023", "January 01, 2021", "<a href=\"https://marketing.kaiko.com/hubfs/Factsheets%20and%20Methodologies/VVT10%20-%20Fact%20Sheet%20-%20multi-asset_vvt10_end=2025-03-12&start=2020-12-31.pdf\" target=\"_blank\">View Factsheet</a>">>,
    <<"Kaiko", "Sector & Thematic", "Kaiko Tokenization Index", "KSTKNZ", "Real-time (5 sec)", "January 23, 2025", "January 3, 2022", factsheet_sector_thematic>>,
    <<"Kaiko", "Sector & Thematic", "Kaiko Tokenization Index NYC", "KSTKNZNYC", "NYC Fixing", "January 23, 2025", "January 3, 2022", factsheet_sector_thematic>>,
    <<"Kaiko", "Sector & Thematic", "Kaiko Tokenization Index LDN", "KSTKNZLDN", "LDN Fixing", "January 23, 2025", "January 3, 2022", factsheet_sector_thematic>>,
    <<"Kaiko", "Sector & Thematic", "Kaiko Tokenization Index SGP", "KSTKNZSGP", "SGP Fixing", "January 23, 2025", "January 3, 2022", factsheet_sector_thematic>>,
    <<"Kaiko", "Sector & Thematic", "Kaiko AI Index", "KSAI", "Real-time (5 sec)", "January 23, 2025", "October 3, 2022", factsheet_sector_thematic>>,
    <<"Kaiko", "Sector & Thematic", "Kaiko AI Index NYC", "KSAINYC", "NYC Fixing", "January 23, 2025", "October 3, 2022", factsheet_sector_thematic>>,
    <<"Kaiko", "Sector & Thematic", "Kaiko AI Index LDN", "KSAILDN", "LDN Fixing", "January 23, 2025", "October 3, 2022", factsheet_sector_thematic>>,
    <<"Kaiko", "Sector & Thematic", "Kaiko AI Index SGP", "KSAISGP", "SGP Fixing", "January 23, 2025", "October 3, 2022", factsheet_sector_thematic>>,
    <<"Kaiko", "Sector & Thematic", "Kaiko Meme Index", "KSMEME", "Real-time (5 sec)", "January 22, 2025", "April 3, 2023", factsheet_sector_thematic>>,
    <<"Kaiko", "Sector & Thematic", "Kaiko Meme Index NYC", "KSMEMENYC", "NYC Fixing", "January 22, 2025", "April 3, 2023", factsheet_sector_thematic>>,
    <<"Kaiko", "Sector & Thematic", "Kaiko Meme Index LDN", "KSMEMELDN", "LDN Fixing", "January 22, 2025", "April 3, 2023", factsheet_sector_thematic>>,
    <<"Kaiko", "Sector & Thematic", "Kaiko Meme Index SGP", "KSMEMESGP", "SGP Fixing", "January 22, 2025", "April 3, 2023", factsheet_sector_thematic>>,
    <<"Kaiko", "Sector & Thematic", "Kaiko DeFi Index", "KSDEFI", "Real-time (5 sec)", "January 17, 2025", "April 3, 2023", factsheet_sector_thematic>>,
    <<"Kaiko", "Sector & Thematic", "Kaiko DeFi Index NYC", "KSDEFINYC", "NYC Fixing", "January 17, 2025", "April 3, 2023", factsheet_sector_thematic>>,
    <<"Kaiko", "Sector & Thematic", "Kaiko DeFi Index LDN", "KSDEFILDN", "LDN Fixing", "January 17, 2025", "April 3, 2023", factsheet_sector_thematic>>,
    <<"Kaiko", "Sector & Thematic", "Kaiko DeFi Index SGP", "KSDEFISGP", "SGP Fixing", "January 17, 2025", "April 3, 2023", factsheet_sector_thematic>>,
    <<"Kaiko", "Sector & Thematic", "Kaiko L2 Index", "KSL2", "Real-time (5 sec)", "July 2, 2024", "April 3, 2023", factsheet_sector_thematic>>,
    <<"Kaiko", "Sector & Thematic", "Kaiko L2 Index NYC", "KSL2NYC", "NYC Fixing", "July 2, 2024", "April 3, 2023", factsheet_sector_thematic>>,
    <<"Kaiko", "Sector & Thematic", "Kaiko L2 Index LDN", "KSL2LDN", "LDN Fixing", "July 2, 2024", "April 3, 2023", factsheet_sector_thematic>>,
    <<"Kaiko", "Sector & Thematic", "Kaiko L2 Index SGP", "KSL2SGP", "SGP Fixing", "July 2, 2024", "April 3, 2023", factsheet_sector_thematic>>,
    <<"Kaiko", "Sector & Thematic", "Vinter Cardano Yield Index ", "CASL", "LDN Fixing", "November 10, 2022", "March 06, 2024", "<a href=\"https://marketing.kaiko.com/hubfs/Factsheets%20and%20Methodologies/CASL%20-%20Fact%20Sheet%20-%20multi-asset_casl_end=2025-03-12&start=2020-12-31.pdf\" target=\"_blank\">View Factsheet</a>">>,
    <<"Kaiko", "Sector & Thematic", "Sygnum Platform Winners Index ", "MOON", "17:00 CET Fixing", "July 21, 2022", "November 01, 2019", "<a href=\"https://marketing.kaiko.com/hubfs/Factsheets%20and%20Methodologies/MOON%20-%20Fact%20Sheet%20-%20multi-asset_moon_end=2025-03-12&start=2020-12-31.pdf\" target=\"_blank\">View Factsheet</a>">>,
    <<"Kaiko", "Sector & Thematic", "Vinter CF Crypto Web3 Index", "VCFWB3", "LDN Fixing", "May 15, 2023", "January 01, 2021", "<a href=\"https://marketing.kaiko.com/hubfs/Factsheets%20and%20Methodologies/VCFWB3%20-%20Fact%20Sheet%20-multi-asset_vcfwb3_end=2025-03-12&start=2020-12-31.pdf\" target=\"_blank\">View Factsheet</a>">>,
    <<"Kaiko", "Market", "Kaiko Standard Index", "KMSTA", "Real-time (5 sec)", "January 23, 2025", "April 1, 2014", factsheet_market>>,
    <<"Kaiko", "Market", "Kaiko Standard Index NYC", "KMSTANYC", "NYC Fixing", "January 23, 2025", "April 1, 2014", factsheet_market>>,
    <<"Kaiko", "Market", "Kaiko Standard Index LDN", "KMSTALDN", "LDN Fixing", "January 23, 2025", "April 1, 2014", factsheet_market>>,
    <<"Kaiko", "Market", "Kaiko Standard Index SGP", "KMSTASGP", "SGP Fixing", "January 23, 2025", "April 1, 2014", factsheet_market>>,
    <<"Kaiko", "Market", "Kaiko Small Cap Index", "KMSMA", "Real-time (5 sec)", "January 23, 2025", "January 2, 2015", factsheet_market>>,
    <<"Kaiko", "Market", "Kaiko Small Cap Index NYC", "KMSMANYC", "NYC Fixing", "January 23, 2025", "January 2, 2015", factsheet_market>>,
    <<"Kaiko", "Market", "Kaiko Small Cap Index LDN", "KMSMALDN", "LDN Fixing", "January 23, 2025", "January 2, 2015", factsheet_market>>,
    <<"Kaiko", "Market", "Kaiko Small Cap Index SGP", "KMSMASGP", "SGP Fixing", "January 23, 2025", "January 2, 2015", factsheet_market>>,
    <<"Kaiko", "Market", "Kaiko Mid Cap Index", "KMMID", "Real-time (5 sec)", "January 23, 2025", "April 2, 2018", factsheet_market>>,
    <<"Kaiko", "Market", "Kaiko Mid Cap Index NYC", "KMMIDNYC", "NYC Fixing", "January 23, 2025", "April 2, 2018", factsheet_market>>,
    <<"Kaiko", "Market", "Kaiko Mid Cap Index LDN", "KMMIDLDN", "LDN Fixing", "January 23, 2025", "April 2, 2018", factsheet_market>>,
    <<"Kaiko", "Market", "Kaiko Mid Cap Index SGP", "KMMIDSGP", "SGP Fixing", "January 23, 2025", "April 2, 2018", factsheet_market>>,
    <<"Kaiko", "Market", "Kaiko Large Cap Index", "KMLAR", "Real-time (5 sec)", "January 23, 2025", "April 1, 2014", factsheet_market>>,
    <<"Kaiko", "Market", "Kaiko Large Cap Index NYC", "KMLARNYC", "NYC Fixing", "January 23, 2025", "April 1, 2014", factsheet_market>>,
    <<"Kaiko", "Market", "Kaiko Large Cap Index LDN", "KMLARLDN", "LDN Fixing", "January 23, 2025", "April 1, 2014", factsheet_market>>,
    <<"Kaiko", "Market", "Kaiko Large Cap Index SGP", "KMLARSGP", "SGP Fixing", "January 23, 2025", "April 1, 2014", factsheet_market>>,
    <<"Kaiko", "Market", "Kaiko Investable Index", "KMINV", "Real-time (5 sec)", "January 23, 2025", "April 1, 2014", factsheet_market>>,
    <<"Kaiko", "Market", "Kaiko Investable Index NYC", "KMINVNYC", "NYC Fixing", "January 23, 2025", "April 1, 2014", factsheet_market>>,
    <<"Kaiko", "Market", "Kaiko Investable Index LDN", "KMINVLDN", "LDN Fixing", "January 23, 2025", "April 1, 2014", factsheet_market>>,
    <<"Kaiko", "Market", "Kaiko Investable Index SGP", "KMINVSGP", "SGP Fixing", "January 23, 2025", "April 1, 2014", factsheet_market>>,
    <<"Kaiko", "Market", "Vinter 21Shares Crypto Mid-Cap Index ", "ALTS", "LDN Fixing", "December 14, 2021", "January 01, 2021", "<a href=\"https://marketing.kaiko.com/hubfs/Factsheets%20and%20Methodologies/ALTS%20-%20Fact%20Sheet%20-%20multi-asset_alts_end=2025-03-12&start=2020-12-31.pdf\" target=\"_blank\">View Factsheet</a>">>,
    <<"Kaiko", "Market", "Vinter 21Shares Crypto Staking Index ", "STAKE", "LDN Fixing", "January 18, 2023", "January 01, 2021", "<a href=\"https://marketing.kaiko.com/hubfs/Factsheets%20and%20Methodologies/multi-asset_stake_end=2025-03-12&start=2020-12-31.pdf\" target=\"_blank\">View Factsheet</a>">>,
    <<"Kaiko", "Market", "Vinter BOLD Index", "VBNGD", "LDN Fixing", "November 10, 2023", "January 01, 2020", "<a href=\"https://marketing.kaiko.com/hubfs/Factsheets%20and%20Methodologies/VBNGD%20-%20Fact%20Sheet%20-%20multi-asset_vbngd_end=2025-03-12&start=2020-12-31.pdf\" target=\"_blank\">View Factsheet</a>">>,
    <<"Kaiko", "Market", "Vinter CF Crypto Momentum Index", "VCFMOM", "LDN Fixing", "May 15, 2023", "January 01, 2021", "<a href=\"https://marketing.kaiko.com/hubfs/Factsheets%20and%20Methodologies/VCFMOM%20-%20Fact%20Sheet%20-multi-asset_vcfmom_end=2025-03-12&start=2020-12-31.pdf\" target=\"_blank\">View Factsheet</a>">>,
    <<"Kaiko", "Market", "Vinter Diffuse Digital 30 Index", "DDV", "LDN Fixing", "July 02, 2022", "January 01, 2021", "<a href=\"https://marketing.kaiko.com/hubfs/Factsheets%20and%20Methodologies/DDV%20-%20Fact%20Sheet%20-%20multi-asset_ddv_end=2025-03-12&start=2020-12-31.pdf\" target=\"_blank\">View Factsheet</a>">>,
    <<"Kaiko", "Market", "Vinter Hashdex Risk Parity Momentum Crypto Index", "VHASHMOM", "17:00 CET Fixing", "September 05, 2022", "January 01, 2021", "<a href=\"https://marketing.kaiko.com/hubfs/VHASHMOM%20Kaiko%20Factsheet.pdf\" target=\"_blank\">View Factsheet</a>">>,
    <<"Kaiko", "Market", "Vinter Bytetree BOLD1 Inverse Volatility Index", "BOLD1", "LDN Fixing", "November 10, 2023", "January 01, 2020", "<a target=\"_blank\">Coming Soon</a>">>
  >>

----------------------------------------------------------------------------
(* merge_location_variants *)

\* variant of GroupKeys: a key is recorded for every record, not once per group
GroupKeys_perRecord(items) ==
    [k \in 1..Len(items) |-> get_base_ticker(items[k][4])]

\* bases[i]: the base ticker of record i; the positions at which a base
\* ticker appears for the first time
FirstAppearances(bases) ==
    SelectSeq([i \in 1..Len(bases) |-> i],
              LAMBDA i : \A j \in 1..(i - 1) : bases[j] # bases[i])

\* the keys of ticker_groups in insertion order: each base ticker once, at
\* the position of its first appearance in items
GroupKeys(items) ==
    LET bases == AsTuple([i \in 1..Len(items) |-> get_base_ticker(items[i][4])])
        first == FirstAppearances(bases)
    IN  [k \in 1..Len(first) |-> bases[first[k]]]

\* ticker_groups[base_ticker]: the records of the group in input order
Variants(items, base_ticker) ==
    SelectSeq(items, LAMBDA item : get_base_ticker(item[4]) = base_ticker)

HasBaseVariant(variants, base_ticker) ==
    \E k \in 1..Len(variants) : variants[k][4] = base_ticker

\* the loop assigns base_variant at every exact match, so the last match stays;
\* without a match the first record of the group is used
BaseVariant(variants, base_ticker) ==
    IF HasBaseVariant(variants, base_ticker)
    THEN LET last == CHOOSE k \in 1..Len(variants) :
                        /\ variants[k][4] = base_ticker
                        /\ \A j \in (k + 1)..Len(variants) : variants[j][4] # base_ticker
         IN  variants[last]
    ELSE variants[1]

LocationVariants(variants, base_ticker) ==
    IF HasBaseVariant(variants, base_ticker)
    THEN SelectSeq(variants, LAMBDA variant : variant[4] # base_ticker)
    ELSE Tail(variants)

\* locations_found: the suffixes some location variant ends with, in the order NYC, LDN, SGP
LocationsFound(location_variants) ==
    SelectSeq(Suffixes, LAMBDA location :
        \E k \in 1..Len(location_variants) : EndsWith(location_variants[k][4], location))

\* variant of CombinedDisseminations: the separator is written even when no
\* location was found
CombinedDisseminations_trailingSep(base_variant, location_variants) ==
    base_variant[5] \o ", " \o Join(LocationsFound(location_variants), ", ")

CombinedDisseminations(base_variant, location_variants) ==
    Join(<<base_variant[5]>> \o LocationsFound(location_variants), ", ")

\* variant of MergedEntry: the row keeps the ticker of the record it was built from
MergedEntry_canonicalTicker(items, base_ticker) ==
    LET variants == Variants(items, base_ticker)
        base_variant == BaseVariant(variants, base_ticker)
        location_variants == LocationVariants(variants, base_ticker)
    IN  <<base_variant[1], base_variant[2], base_variant[3], base_variant[4],
          CombinedDisseminations(base_variant, location_variants),
          base_variant[6], base_variant[7], base_variant[8]>>

\* variant of MergedEntry: the factsheet is taken from the last record of the group
MergedEntry_lastFactsheet(items, base_ticker) ==
    LET variants == Variants(items, base_ticker)
        base_variant == BaseVariant(variants, base_ticker)
        location_variants == LocationVariants(variants, base_ticker)
    IN  <<base_variant[1], base_variant[2], base_variant[3], base_ticker,
          CombinedDisseminations(base_variant, location_variants),
          base_variant[6], base_variant[7], variants[Len(variants)][8]>>

MergedEntry(items, base_ticker) ==
    LET variants == Variants(items, base_ticker)
        base_variant == BaseVariant(variants, base_ticker)
        location_variants == LocationVariants(variants, base_ticker)
    IN  <<base_variant[1], base_variant[2], base_variant[3], base_ticker,
          CombinedDisseminations(base_variant, location_variants),
          base_variant[6], base_variant[7], base_variant[8]>>

\* merged_items: one entry per key, in the order of the keys
MergedEntries(items, keys) == [k \in 1..Len(keys) |-> MergedEntry(items, keys[k])]

merge_location_variants(items) == MergedEntries(items, AsTuple(GroupKeys(items)))

----------------------------------------------------------------------------
(* Files and the csv module *)

\* A file is absent or a sequence of lines (each written with the writer's
\* line terminator, which is left out of the line).  No field of the model
\* contains a line break, so a CSV record is one line.
NoFile == [exists |-> FALSE, lines |-> <<>>]

File(lines) == [exists |-> TRUE, lines |-> lines]

\* variant of WriteField: the quote characters inside a quoted field are not doubled
WriteField_quotesNotDoubled(field) ==
    IF Positions(field, ",") # {} \/ Positions(field, "\"") # {}
    THEN "\"" \o field \o "\""
    ELSE field

\* csv.writer with QUOTE_MINIMAL: a field holding the delimiter or the quote
\* character is quoted, with every quote character doubled
WriteField(field) ==
    IF Positions(field, ",") # {} \/ Positions(field, "\"") # {}
    THEN "\"" \o Replace(field, "\"", "\"\"") \o "\""
    ELSE field

\* writer.writerow
WriteRow(fields) == Join([k \in 1..Len(fields) |-> WriteField(fields[k])], ",")

\* writer.writerow(headers) followed by writer.writerows(items)
WriteCsv(headers, items) ==
    File(<<WriteRow(headers)>> \o [k \in 1..Len(items) |-> WriteRow(items[k])])

\* position of the first delimiter at or after p, n + 1 if there is none
\* (commas: the positions of the delimiter in the line, n: its length)
NextDelimiter(commas, n, p) ==
    IF {c \in commas : c >= p} = {} THEN n + 1 ELSE Min({c \in commas : c >= p})

\* the closing quotes possible for a quoted field opened at p: a quote after an
\* even number of quotes inside the field and not followed by a quote
\* (quotes: the positions of the quote character in the line)
ClosingQuotes(quotes, p) ==
    {j \in quotes :
        /\ j > p
        /\ Cardinality({i \in quotes : p < i /\ i <= j}) % 2 = 1
        /\ (j + 1) \notin quotes}

\* the text of a quoted field: every doubled quote is one quote
Unquoted(text) == IF Contains(text, "\"\"") THEN Replace(text, "\"\"", "\"") ELSE text

\* csv.reader (not strict) on one line, from the field starting at p: a field
\* opening with a quote runs to its closing quote and takes what follows up to
\* the delimiter; any other field runs to the delimiter; a quoted field never
\* closed takes the rest of the line
RECURSIVE ParseFrom(_, _, _, _)
ParseFrom(line, commas, quotes, p) ==
    IF p > Len(line) THEN <<"">>
    ELSE IF p \in quotes
    THEN IF ClosingQuotes(quotes, p) = {}
         THEN <<Unquoted(SubSeq(line, p + 1, Len(line)))>>
         ELSE LET j == Min(ClosingQuotes(quotes, p))
                  c == NextDelimiter(commas, Len(line), j + 1)
                  field == Unquoted(SubSeq(line, p + 1, j - 1)) \o SubSeq(line, j + 1, c - 1)
              IN  IF c > Len(line) THEN <<field>>
                  ELSE <<field>> \o ParseFrom(line, commas, quotes, c + 1)
    ELSE LET c == NextDelimiter(commas, Len(line), p)
             field == SubSeq(line, p, c - 1)
         IN  IF c > Len(line) THEN <<field>>
             ELSE <<field>> \o ParseFrom(line, commas, quotes, c + 1)

\* one row of csv.reader; an empty line is the empty row
ParseLine(line) ==
    IF line = "" THEN <<>>
    ELSE ParseFrom(line, Positions(line, ","), Positions(line, "\""), 1)

\* csv.DictReader: the first row gives the field names, empty rows are skipped
FieldNames(file) == ParseLine(file.lines[1])

DataRows(file) ==
    SelectSeq(AsTuple([k \in 1..(Len(file.lines) - 1) |-> ParseLine(file.lines[k + 1])]),
              LAMBDA row : row # <<>>)

\* dict(zip(fieldnames, row)): the last column of a name gives its value
Column(fieldnames, name) == Max({k \in 1..Len(fieldnames) : fieldnames[k] = name})

\* a row shorter than the field names has None (restval) for the missing keys
IsNone(fieldnames, row, name) == Column(fieldnames, name) > Len(row)

----------------------------------------------------------------------------
(* get_existing_fact_sheets *)

HasColumn(fieldnames, name) == \E k \in 1..Len(fieldnames) : fieldnames[k] = name

FactsheetColumn(fieldnames) ==
    IF HasColumn(fieldnames, "Factsheet") THEN "Factsheet" ELSE "Fact Sheet"

\* variant of ReaderRaises: the file is opened without the os.path.exists test,
\* so a missing file raises as well
ReaderRaises_missingFile(file) == ~file.exists \/ file.lines = <<>>

\* the reader raises: an empty file has no field names (fieldnames is None and
\* the membership test fails), and a row too short to have the factsheet
\* column yields None, which has no strip()
ReaderRaises(file) ==
    IF ~file.exists THEN FALSE
    ELSE IF file.lines = <<>> THEN TRUE
    ELSE LET fieldnames == FieldNames(file)
             rows == DataRows(file)
         IN  /\ HasColumn(fieldnames, FactsheetColumn(fieldnames))
             /\ \E k \in 1..Len(rows) :
                   IsNone(fieldnames, rows[k], FactsheetColumn(fieldnames))

DoubleHref == "<a href=\"<a href=\""

\* value after strip() and the removal of one trailing comma (lines 45 to 48)
CleanValue(raw) ==
    LET value == Strip(raw)
    IN  IF EndsWith(value, ",") THEN SubSeq(value, 1, Len(value) - 1) ELSE value

\* the repair of lines 55 and 56
FixDoubleHref(value) ==
    IF Contains(value, DoubleHref) THEN Replace(value, DoubleHref, "<a href=\"") ELSE value

\* row.get('Ticker', 'Unknown'); in every file of the model the Ticker column
\* comes before the factsheet column, so a row that reaches this line has it
RowTicker(fieldnames, row) ==
    IF HasColumn(fieldnames, "Ticker") THEN row[Column(fieldnames, "Ticker")] ELSE "Unknown"

\* the dict built by the loop over the rows (tickers[k] and values[k]: ticker
\* and cleaned value of row k): empty values are skipped and a later row of a
\* ticker overwrites an earlier one
FactSheetDict(tickers, values) ==
    [ticker \in {tickers[k] : k \in {j \in 1..Len(values) : values[j] # ""}} |->
        FixDoubleHref(values[Max({k \in 1..Len(values) :
                                     values[k] # "" /\ tickers[k] = ticker})])]

ReadFactSheets(file) ==
    IF ~file.exists THEN <<>>
    ELSE LET fieldnames == FieldNames(file)
             column == FactsheetColumn(fieldnames)
             rows == IF HasColumn(fieldnames, column) THEN DataRows(file) ELSE <<>>
         IN  FactSheetDict(AsTuple([k \in 1..Len(rows) |-> RowTicker(fieldnames, rows[k])]),
                           AsTuple([k \in 1..Len(rows) |->
                               CleanValue(rows[k][Column(fieldnames, column)])]))

----------------------------------------------------------------------------
(* pull_and_save_data_to_csv and write_filtered_csv *)

headers ==
    <<"Brand", "Benchmark Family", "Name", "Ticker", "Disseminations",
      "Launch Date", "Inception Date", "Factsheet">>

\* variant of WithFactSheet: the static factsheet is kept whatever was recovered
WithFactSheet_staticOnly(entry, fact_sheets) == entry

\* lines 262 to 270 for one catalogue entry
WithFactSheet(entry, fact_sheets) ==
    LET ticker == entry[4]
        factsheet ==
            IF ticker \in DOMAIN fact_sheets /\ fact_sheets[ticker] # ""
            THEN IF EndsWith(fact_sheets[ticker], ",")
                 THEN SubSeq(fact_sheets[ticker], 1, Len(fact_sheets[ticker]) - 1)
                 ELSE fact_sheets[ticker]
            ELSE entry[8]
    IN  SubSeq(entry, 1, 7) \o <<factsheet>>

\* the position of each item in the sorted list: one more than the number of
\* items with a smaller ticker or with the same ticker and an earlier position
TickerRanks(items) ==
    [i \in 1..Len(items) |->
        1 + Cardinality({j \in 1..Len(items) :
                \/ StrLess(items[j][4], items[i][4])
                \/ (items[j][4] = items[i][4] /\ j < i)})]

Arranged(items, rank) ==
    [k \in 1..Len(items) |-> items[CHOOSE i \in 1..Len(items) : rank[i] = k]]

\* variant of SortedByTicker: the rows stay in the order of the merge
SortedByTicker_mergeOrder(items) == items

\* sorted(merged_items, key=lambda row: row[3]): stable, ascending by ticker
SortedByTicker(items) == Arranged(items, AsTuple(TickerRanks(items)))

\* variant of HasFactsheet: only the empty string counts as no factsheet
HasFactsheet_nonEmpty(item) == item[8] # ""

\* the test of line 236
HasFactsheet(item) == item[8] # "" /\ item[8] # "-"

FilteredItems(items) == SelectSeq(items, HasFactsheet)

\* no run is in progress: nothing has run since the files were last touched
\* ("idle"), or the last run has ended ("done") or raised ("crashed")
NotRunning == pc \in {"idle", "done", "crashed"}

\* existing_fact_sheets = get_existing_fact_sheets(), in a fresh process
GetExistingFactSheets ==
    /\ NotRunning
    /\ runs < MaxRuns
    /\ ~ReaderRaises(coverage_csv)
    /\ existing_fact_sheets' = ReadFactSheets(coverage_csv)
    /\ prior_csv' = coverage_csv
    /\ fixed_items_with_fact_sheets' = <<>>
    /\ merged_items' = <<>>
    /\ all_items' = <<>>
    /\ runs' = runs + 1
    /\ pc' = "loaded"
    /\ UNCHANGED <<coverage_csv, filtered_csv, edits, passes>>

\* get_existing_fact_sheets raises and the process ends with nothing written
GetExistingFactSheetsRaises ==
    /\ NotRunning
    /\ runs < MaxRuns
    /\ ReaderRaises(coverage_csv)
    /\ existing_fact_sheets' = <<>>
    /\ prior_csv' = coverage_csv
    /\ fixed_items_with_fact_sheets' = <<>>
    /\ merged_items' = <<>>
    /\ all_items' = <<>>
    /\ runs' = runs + 1
    /\ pc' = "crashed"
    /\ UNCHANGED <<coverage_csv, filtered_csv, edits, passes>>

\* the loop of lines 260 to 270 over get_fixed_entries()
Reconcile ==
    /\ pc = "loaded"
    /\ fixed_items_with_fact_sheets' =
          [k \in 1..Len(get_fixed_entries) |->
              WithFactSheet(get_fixed_entries[k], existing_fact_sheets)]
    /\ pc' = "reconciled"
    /\ UNCHANGED <<coverage_csv, filtered_csv, prior_csv, existing_fact_sheets,
                   merged_items, all_items, runs, edits, passes>>

\* merged_items = merge_location_variants(fixed_items_with_fact_sheets)
MergeVariants ==
    /\ pc = "reconciled"
    /\ merged_items' = merge_location_variants(fixed_items_with_fact_sheets)
    /\ pc' = "merged"
    /\ UNCHANGED <<coverage_csv, filtered_csv, prior_csv, existing_fact_sheets,
                   fixed_items_with_fact_sheets, all_items, runs, edits, passes>>

\* all_items = sorted(merged_items, key=...)
SortItems ==
    /\ pc = "merged"
    /\ runs > 0
    /\ all_items' = SortedByTicker(merged_items)
    /\ pc' = "sorted"
    /\ UNCHANGED <<coverage_csv, filtered_csv, prior_csv, existing_fact_sheets,
                   fixed_items_with_fact_sheets, merged_items, runs, edits, passes>>

\* lines 283 to 288: Reference_Rates_Coverage.csv is overwritten
WriteMainCsv ==
    /\ pc = "sorted"
    /\ coverage_csv' = WriteCsv(headers, all_items)
    /\ pc' = "main_written"
    /\ UNCHANGED <<filtered_csv, prior_csv, existing_fact_sheets,
                   fixed_items_with_fact_sheets, merged_items, all_items, runs, edits, passes>>

\* write_filtered_csv(all_items, headers)
WriteFilteredCsv ==
    /\ pc = "main_written"
    /\ filtered_csv' = WriteCsv(headers, FilteredItems(all_items))
    /\ pc' = "done"
    /\ UNCHANGED <<coverage_csv, prior_csv, existing_fact_sheets,
                   fixed_items_with_fact_sheets, merged_items, all_items, runs, edits, passes>>

----------------------------------------------------------------------------
(* The coverage file between two runs: it is edited by hand or removed *)

\* rows whose factsheet is edited or added: a plain index, the base record of
\* a merged group, and a location variant as files written before the merge
\* existed listed it
EditTickers == {"EGLX", "KT5", "KT5NYC"}

TripleHref == "<a href=\"<a href=\"<a href=\"u\">T</a>"

\* factsheet cells typed in: with trailing commas, with a space before the
\* comma, blank, the placeholder, and with the anchor opened two and three times
EditValues ==
    { "X,", "X,,", "X ,", "  ", "-", ",,", "<a href=\"<a href=\"u\">D</a>", TripleHref }

CanEdit ==
    /\ NotRunning
    /\ edits < MaxEdits
    /\ runs < MaxRuns
    /\ coverage_csv.exists

ReplaceAt(seq, k, x) == [i \in 1..Len(seq) |-> IF i = k THEN x ELSE seq[i]]

\* the file (rows: its parsed lines) after the factsheet cell of the row of
\* ticker is set to value; a ticker without a row gets a new last row.  The
\* file is saved as well-formed CSV.
WithCell(file, rows, ticker, value) ==
    LET fieldnames == rows[1]
        column == Column(fieldnames, FactsheetColumn(fieldnames))
        hits == {k \in 2..Len(rows) :
                    /\ Len(rows[k]) = Len(fieldnames)
                    /\ RowTicker(fieldnames, rows[k]) = ticker}
        blank == [i \in 1..Len(fieldnames) |->
                    IF i = Column(fieldnames, "Ticker") THEN ticker
                    ELSE IF i = column THEN value ELSE ""]
    IN  IF hits = {}
        THEN File(Append(file.lines, WriteRow(blank)))
        ELSE File(ReplaceAt(file.lines, Min(hits),
                            WriteRow(ReplaceAt(rows[Min(hits)], column, value))))

\* the files an edit of one factsheet cell can leave
WithEditedCell(file) ==
    LET rows == AsTuple([k \in 1..Len(file.lines) |-> ParseLine(file.lines[k])])
    IN  {WithCell(file, rows, ticker, value) : ticker \in EditTickers, value \in EditValues}

SetFactsheet ==
    /\ CanEdit
    /\ coverage_csv.lines # <<>>
    /\ HasColumn(FieldNames(coverage_csv), FactsheetColumn(FieldNames(coverage_csv)))
    /\ HasColumn(FieldNames(coverage_csv), "Ticker")
    /\ coverage_csv' \in WithEditedCell(coverage_csv)
    /\ edits' = edits + 1
    /\ pc' = "idle"
    /\ UNCHANGED <<filtered_csv, prior_csv, existing_fact_sheets,
                   fixed_items_with_fact_sheets, merged_items, all_items, runs, passes>>

\* the header is put back to the label of older files
RenameHeader ==
    /\ CanEdit
    /\ coverage_csv.lines # <<>>
    /\ HasColumn(FieldNames(coverage_csv), "Factsheet")
    /\ coverage_csv' =
          File(ReplaceAt(coverage_csv.lines, 1,
                  WriteRow(ReplaceAt(FieldNames(coverage_csv),
                                     Column(FieldNames(coverage_csv), "Factsheet"),
                                     "Fact Sheet"))))
    /\ edits' = edits + 1
    /\ pc' = "idle"
    /\ UNCHANGED <<filtered_csv, prior_csv, existing_fact_sheets,
                   fixed_items_with_fact_sheets, merged_items, all_items, runs, passes>>

\* the last cell of the first data row is cut off
CutLastCell ==
    /\ CanEdit
    /\ Len(coverage_csv.lines) >= 2
    /\ Len(ParseLine(coverage_csv.lines[2])) = Len(FieldNames(coverage_csv))
    /\ coverage_csv' =
          File(ReplaceAt(coverage_csv.lines, 2,
                  LET row == ParseLine(coverage_csv.lines[2])
                  IN  WriteRow(SubSeq(row, 1, Len(row) - 1))))
    /\ edits' = edits + 1
    /\ pc' = "idle"
    /\ UNCHANGED <<filtered_csv, prior_csv, existing_fact_sheets,
                   fixed_items_with_fact_sheets, merged_items, all_items, runs, passes>>

\* the file is emptied
TruncateCoverage ==
    /\ CanEdit
    /\ coverage_csv.lines # <<>>
    /\ coverage_csv' = File(<<>>)
    /\ edits' = edits + 1
    /\ pc' = "idle"
    /\ UNCHANGED <<filtered_csv, prior_csv, existing_fact_sheets,
                   fixed_items_with_fact_sheets, merged_items, all_items, runs, passes>>

\* the file is removed
DeleteCoverage ==
    /\ CanEdit
    /\ coverage_csv' = NoFile
    /\ edits' = edits + 1
    /\ pc' = "idle"
    /\ UNCHANGED <<filtered_csv, prior_csv, existing_fact_sheets,
                   fixed_items_with_fact_sheets, merged_items, all_items, runs, passes>>

Init ==
    /\ pc = "idle"
    /\ coverage_csv = NoFile
    /\ filtered_csv = NoFile
    /\ prior_csv = NoFile
    /\ existing_fact_sheets = <<>>
    /\ fixed_items_with_fact_sheets = <<>>
    /\ merged_items = <<>>
    /\ all_items = <<>>
    /\ runs = 0
    /\ edits = 0
    /\ passes = 0

Next ==
    \/ GetExistingFactSheets
    \/ GetExistingFactSheetsRaises
    \/ Reconcile
    \/ MergeVariants
    \/ SortItems
    \/ WriteMainCsv
    \/ WriteFilteredCsv
    \/ SetFactsheet
    \/ RenameHeader
    \/ CutLastCell
    \/ TruncateCoverage
    \/ DeleteCoverage

Spec == Init /\ [][Next]_vars

\* the position that follows each position of a started run
NextPosition ==
    [loaded |-> "reconciled", reconciled |-> "merged", merged |-> "sorted",
     sorted |-> "main_written", main_written |-> "done"]

\* the run moves on from its position
Advance == pc \in DOMAIN NextPosition /\ pc' = NextPosition[pc]

\* a started run is a sequential process that goes on to its end: the run
\* leaves each of its positions, which only the step of that position does.
\* Starting a run and editing the file are up to the user.
FairSpec == Spec /\ WF_pc(Advance)

----------------------------------------------------------------------------
(* Merge specification: merge_location_variants applied to bounded lists *)

\* the KT5 group of the catalogue (entries 3 to 6), EGLX, a ticker carrying two
\* stacked suffixes, and a second record with the ticker KT5
MergePool ==
    { get_fixed_entries[1], get_fixed_entries[3], get_fixed_entries[4],
      get_fixed_entries[5], get_fixed_entries[6],
      <<"Kaiko", "Blue-Chip", "Kaiko 5 Index NYC LDN", "KT5NYCLDN", "LDN Fixing",
        "October 17, 2023", "March 19, 2018", "">>,
      <<"Vinter", "Market", "Kaiko 5 Index (old)", "KT5", "17:00 CET Fixing",
        "July 21, 2022", "January 01, 2021", "-">> }

InputLists == UNION { [1..n -> MergePool] : n \in 0..MaxItems }

InitMerge ==
    /\ pc = "reconciled"
    /\ fixed_items_with_fact_sheets \in InputLists
    /\ merged_items = <<>>
    /\ all_items = <<>>
    /\ coverage_csv = NoFile
    /\ filtered_csv = NoFile
    /\ prior_csv = NoFile
    /\ existing_fact_sheets = <<>>
    /\ runs = 0
    /\ edits = 0
    /\ passes = 0

\* the merged rows are merged once more
Remerge ==
    /\ pc = "merged"
    /\ passes < MaxPasses
    /\ fixed_items_with_fact_sheets' = merged_items
    /\ merged_items' = <<>>
    /\ passes' = passes + 1
    /\ pc' = "reconciled"
    /\ UNCHANGED <<coverage_csv, filtered_csv, prior_csv, existing_fact_sheets,
                   all_items, runs, edits>>

NextMerge == MergeVariants \/ Remerge

SpecMerge == InitMerge /\ [][NextMerge]_vars

----------------------------------------------------------------------------
(* Properties of merge_location_variants (checked under SpecMerge) *)

Tickers(items) == {items[i][4] : i \in 1..Len(items)}

BaseTickers(items) == {get_base_ticker(items[i][4]) : i \in 1..Len(items)}

NoSuffixedTicker(items) == \A i \in 1..Len(items) : ~HasSuffix(items[i][4])

DistinctTickers(items) ==
    \A i, j \in 1..Len(items) : i # j => items[i][4] # items[j][4]

\* C1: the merge returns exactly one row per distinct base ticker of its
\* input: as many rows as distinct base tickers, every input record's base
\* ticker on exactly one row, pairwise distinct row tickers, and never more
\* rows than input records.
C1_OneRowPerBaseTicker ==
    pc = "merged" =>
        /\ Len(merged_items) = Cardinality(BaseTickers(fixed_items_with_fact_sheets))
        /\ \A i \in 1..Len(fixed_items_with_fact_sheets) :
              Cardinality({k \in 1..Len(merged_items) :
                  merged_items[k][4] = get_base_ticker(fixed_items_with_fact_sheets[i][4])}) = 1
        /\ DistinctTickers(merged_items)
        /\ Len(merged_items) <= Len(fixed_items_with_fact_sheets)

\* four records, two of them folded away
C1_Witness ==
    /\ pc = "merged"
    /\ Len(fixed_items_with_fact_sheets) = 4
    /\ Len(merged_items) = 2
    /\ Cardinality(Tickers(fixed_items_with_fact_sheets)) = 4

\* the dissemination field of the first location variant ending in location
VariantDissemination(location_variants, location) ==
    location_variants[Min({k \in 1..Len(location_variants) :
                              EndsWith(location_variants[k][4], location)})][5]

\* the dissemination the claim describes for a group: the canonical record's
\* dissemination, then the dissemination entries of the location variants
\* present, in the order NYC, LDN, SGP
ClaimedDisseminations(items, base_ticker) ==
    LET variants == Variants(items, base_ticker)
        location_variants == LocationVariants(variants, base_ticker)
        found == LocationsFound(location_variants)
    IN  Join(<<BaseVariant(variants, base_ticker)[5]>>
                \o [k \in 1..Len(found) |-> VariantDissemination(location_variants, found[k])],
             ", ")

\* C2: the merged row's dissemination is the canonical record's dissemination
\* followed by the entries of the location variants present, in the order NYC,
\* LDN, SGP whatever the input order; for the input KT5LDN, KT5SGP, KT5NYC, KT5
\* it is "Real-time (5 sec), NYC Fixing, LDN Fixing, SGP Fixing".
C2_DisseminationEntries ==
    pc = "merged" =>
        /\ \A k \in 1..Len(merged_items) :
              merged_items[k][5] =
                  ClaimedDisseminations(fixed_items_with_fact_sheets, merged_items[k][4])
        /\ fixed_items_with_fact_sheets = <<get_fixed_entries[5], get_fixed_entries[6],
                                            get_fixed_entries[4], get_fixed_entries[3]>>
              => merged_items[1][5] = "Real-time (5 sec), NYC Fixing, LDN Fixing, SGP Fixing"

\* C3 as stated: a list without location-suffixed tickers is returned unchanged.
C3_Original ==
    (pc = "merged" /\ NoSuffixedTicker(fixed_items_with_fact_sheets))
        => merged_items = fixed_items_with_fact_sheets

\* C3 (amended): a list whose tickers are pairwise distinct and none of which
\* ends in NYC, LDN or SGP is returned unchanged, every field and the order;
\* this covers the output of a previous merge that left no suffixed ticker.
C3_Idempotent ==
    (/\ pc = "merged"
     /\ NoSuffixedTicker(fixed_items_with_fact_sheets)
     /\ DistinctTickers(fixed_items_with_fact_sheets))
        => merged_items = fixed_items_with_fact_sheets

\* the output of a merge that folded records away has been merged again
C3_Witness ==
    /\ pc = "merged"
    /\ passes = 1
    /\ Len(fixed_items_with_fact_sheets) = 2
    /\ NoSuffixedTicker(fixed_items_with_fact_sheets)
    /\ merged_items = fixed_items_with_fact_sheets

\* a ticker with its location suffix, if it ends in one, removed once
StripOneSuffix(ticker) ==
    IF HasSuffix(ticker) THEN SubSeq(ticker, 1, Len(ticker) - 3) ELSE ticker

\* a ticker ending in two location suffixes one after the other
StackedSuffix(ticker) == HasSuffix(ticker) /\ HasSuffix(StripOneSuffix(ticker))

\* C9 as stated: no merged row's ticker ends in NYC, LDN or SGP, and the row
\* tickers are the base tickers of the input tickers.
C9_Original ==
    pc = "merged" =>
        /\ \A k \in 1..Len(merged_items) : ~HasSuffix(merged_items[k][4])
        /\ Tickers(merged_items) = BaseTickers(fixed_items_with_fact_sheets)

\* C9 (amended): the tickers of the merged rows are exactly the input tickers
\* with one trailing NYC, LDN or SGP removed (get_base_ticker of each input
\* ticker of the group); a row's ticker still ends in NYC, LDN or SGP only when
\* an input ticker of its group carries two stacked location suffixes.
C9_BaseTicker ==
    pc = "merged" =>
        /\ Tickers(merged_items) =
              {StripOneSuffix(fixed_items_with_fact_sheets[i][4]) :
                  i \in 1..Len(fixed_items_with_fact_sheets)}
        /\ \A k \in 1..Len(merged_items) :
              HasSuffix(merged_items[k][4]) =>
                  \E i \in 1..Len(fixed_items_with_fact_sheets) :
                      /\ StackedSuffix(fixed_items_with_fact_sheets[i][4])
                      /\ get_base_ticker(fixed_items_with_fact_sheets[i][4]) = merged_items[k][4]

\* a group without its base record, next to a ticker with two stacked suffixes
C9_Witness ==
    /\ pc = "merged"
    /\ Tickers(fixed_items_with_fact_sheets) = {"KT5LDN", "KT5SGP", "KT5NYCLDN"}
    /\ Tickers(merged_items) = {"KT5", "KT5NYC"}

----------------------------------------------------------------------------
(* Properties of a run (checked under Spec and FairSpec) *)

\* the tickers and the raw factsheet cells of the data rows of a coverage file,
\* row by row; nothing when the file is absent or has no factsheet column
FileTickers(file) ==
    IF ~file.exists \/ file.lines = <<>> THEN <<>>
    ELSE IF ~HasColumn(FieldNames(file), FactsheetColumn(FieldNames(file))) THEN <<>>
    ELSE LET fieldnames == FieldNames(file)
             rows == DataRows(file)
         IN  AsTuple([k \in 1..Len(rows) |-> RowTicker(fieldnames, rows[k])])

FileCells(file) ==
    IF ~file.exists \/ file.lines = <<>> THEN <<>>
    ELSE IF ~HasColumn(FieldNames(file), FactsheetColumn(FieldNames(file))) THEN <<>>
    ELSE LET column == Column(FieldNames(file), FactsheetColumn(FieldNames(file)))
             rows == DataRows(file)
         IN  AsTuple([k \in 1..Len(rows) |-> rows[k][column]])

\* the rows of ticker whose cell is not empty once trimmed and rid of one
\* trailing comma
CleanRows(tickers, cells, ticker) ==
    {k \in 1..Len(tickers) : tickers[k] = ticker /\ CleanValue(cells[k]) # ""}

WithoutTrailingComma(value) ==
    IF EndsWith(value, ",") THEN SubSeq(value, 1, Len(value) - 1) ELSE value

\* the factsheet of the catalogue record of a ticker
StaticFactsheet(ticker) ==
    get_fixed_entries[CHOOSE k \in 1..Len(get_fixed_entries) :
                          get_fixed_entries[k][4] = ticker][8]

C4_OriginalFor(tickers, cells) ==
    \A k \in 1..Len(get_fixed_entries) :
        LET rows == CleanRows(tickers, cells, get_fixed_entries[k][4])
        IN  fixed_items_with_fact_sheets[k][8] =
                IF rows = {} THEN get_fixed_entries[k][8]
                ELSE CleanValue(cells[Max(rows)])

\* C4 as stated: a catalogue record whose ticker has a prior row with a cleaned
\* value that is not empty enters the merge with that cleaned value, any other
\* record with its static factsheet.
C4_Original ==
    (pc = "reconciled" /\ runs > 0) =>
        C4_OriginalFor(FileTickers(prior_csv), FileCells(prior_csv))

C4_ReconciledFor(tickers, cells) ==
    \A k \in 1..Len(get_fixed_entries) :
        LET rows == CleanRows(tickers, cells, get_fixed_entries[k][4])
        IN  /\ SubSeq(fixed_items_with_fact_sheets[k], 1, 7) = SubSeq(get_fixed_entries[k], 1, 7)
            /\ fixed_items_with_fact_sheets[k][8] =
                  IF rows = {} THEN get_fixed_entries[k][8]
                  ELSE WithoutTrailingComma(FixDoubleHref(CleanValue(cells[Max(rows)])))

\* C4 (amended): a catalogue record whose ticker has prior rows with a value
\* that is not empty after trimming and the removal of one trailing comma
\* enters the merge with the cleaned value of the last such row, in which a
\* doubled anchor opening is collapsed and one more trailing comma is removed
\* ("X," gives "X", and so does "X,,"); any other record keeps its static
\* factsheet; the other fields are those of the catalogue.
C4_Reconciled ==
    (pc = "reconciled" /\ runs > 0) =>
        /\ Len(fixed_items_with_fact_sheets) = Len(get_fixed_entries)
        /\ C4_ReconciledFor(FileTickers(prior_csv), FileCells(prior_csv))

\* the prior file had "X," for EGLX and the EGLX record enters the merge with "X"
C4_Witness ==
    /\ pc = "reconciled"
    /\ runs > 0
    /\ LET tickers == FileTickers(prior_csv)
           cells == FileCells(prior_csv)
       IN  \E k \in 1..Len(tickers) : tickers[k] = "EGLX" /\ cells[k] = "X,"
    /\ fixed_items_with_fact_sheets[1][4] = "EGLX"
    /\ fixed_items_with_fact_sheets[1][8] = "X"
    /\ fixed_items_with_fact_sheets[3][8] = factsheet_blue_chip

\* C5: after a run the data rows of the filtered file are the data rows of the
\* full file whose Factsheet is neither "" nor "-", in the same order and with
\* the same fields: a subset, no row without factsheet, and none left out.
C5_FilteredSubset ==
    pc = "done" =>
        /\ coverage_csv.exists /\ filtered_csv.exists
        /\ FieldNames(filtered_csv) = FieldNames(coverage_csv)
        /\ DataRows(filtered_csv) =
              SelectSeq(DataRows(coverage_csv), LAMBDA row : row[8] # "" /\ row[8] # "-")

\* a row of the full file has the placeholder "-" and only that row is left out
C5_Witness ==
    /\ pc = "done"
    /\ \E k \in 1..Len(all_items) : all_items[k][8] = "-"
    /\ Len(filtered_csv.lines) = Len(coverage_csv.lines) - 1
    /\ Len(filtered_csv.lines) > 1

Ascending(tickers) ==
    \A k \in 1..(Len(tickers) - 1) : ~StrLess(tickers[k + 1], tickers[k])

Position(tickers, ticker) == CHOOSE k \in 1..Len(tickers) : tickers[k] = ticker

\* C6: after a run the rows of the full file are in ascending order of Ticker
\* (each ticker less than or equal to the next, BOLD1 before CASL before DDV),
\* and so are the rows of the filtered file.
C6_SortedFor(full, filtered) ==
    /\ Ascending(full)
    /\ Ascending(filtered)
    /\ full[1] = "ALTS"
    /\ Position(full, "BOLD1") < Position(full, "CASL")
    /\ Position(full, "CASL") < Position(full, "DDV")

C6_SortedByTicker ==
    pc = "done" => C6_SortedFor(FileTickers(coverage_csv), FileTickers(filtered_csv))

\* the sort moved rows: the merge put EGLX first, the file starts with ALTS
C6_Witness ==
    /\ pc = "done"
    /\ merged_items[1][4] = "EGLX"
    /\ all_items # merged_items
    /\ Len(coverage_csv.lines) = 31

\* a value the reader's cleaning leaves as it is
Clean(value) ==
    /\ Strip(value) = value
    /\ ~EndsWith(value, ",")
    /\ ~Contains(value, DoubleHref)

C7_OriginalFor(fact_sheets) ==
    /\ DOMAIN fact_sheets = {all_items[k][4] : k \in {j \in 1..Len(all_items) : all_items[j][8] # ""}}
    /\ \A k \in 1..Len(all_items) :
          all_items[k][8] # "" => fact_sheets[all_items[k][4]] = all_items[k][8]

\* C7 as stated: re-reading the written full file gives, for every row with a
\* factsheet that is not empty, exactly the written value, and no other ticker.
C7_Original == pc = "done" => C7_OriginalFor(ReadFactSheets(coverage_csv))

C7_RoundTripFor(fact_sheets) ==
    /\ DOMAIN fact_sheets \subseteq {all_items[k][4] : k \in 1..Len(all_items)}
    /\ \A k \in 1..Len(all_items) :
          /\ (all_items[k][8] # "" /\ Clean(all_items[k][8])) =>
                /\ all_items[k][4] \in DOMAIN fact_sheets
                /\ fact_sheets[all_items[k][4]] = all_items[k][8]
          /\ all_items[k][8] = "" => all_items[k][4] \notin DOMAIN fact_sheets

\* C7 (amended): re-reading the written full file gives a mapping that has no
\* ticker other than those of the rows, has no entry for a row with an empty
\* factsheet, and maps the ticker of every row to exactly the written value
\* when that value is not empty, has no leading or trailing whitespace, does
\* not end in a comma and has no doubled anchor opening.
C7_RoundTrip == pc = "done" => C7_RoundTripFor(ReadFactSheets(coverage_csv))

\* a recovered value and the static ones have been written and are read back
C7_Witness ==
    /\ pc = "done"
    /\ \E k \in 1..Len(all_items) : all_items[k][4] = "KT5" /\ all_items[k][8] = "X"
    /\ \E k \in 1..Len(all_items) : all_items[k][8] = factsheet_market
    /\ ~ReaderRaises(coverage_csv)

\* the run has read the prior file and has not yet overwritten it
BeforeWrite == pc \in {"loaded", "reconciled", "merged", "sorted"}

\* the file is read before it is overwritten: until the write the file is the
\* one that was read, and the mapping in use is the one read from it
ReadBeforeOverwrite ==
    /\ BeforeWrite => coverage_csv = prior_csv
    /\ (BeforeWrite \/ pc \in {"main_written", "done"}) =>
          existing_fact_sheets = ReadFactSheets(prior_csv)

C8_OriginalFor(prior_tickers, prior_cells, tickers, cells) ==
    \A k \in 1..Len(prior_tickers) :
        prior_cells[k] # "" =>
            \A j \in 1..Len(tickers) :
                tickers[j] = prior_tickers[k] =>
                    /\ tickers[j] \in DOMAIN existing_fact_sheets
                    /\ cells[j] = existing_fact_sheets[tickers[j]]

\* C8 as stated: when the prior file has a row with a factsheet that is not
\* empty for ticker T, the run reads the file before overwriting it and the
\* regenerated row of T carries the value recovered from the prior file.
C8_Original ==
    /\ ReadBeforeOverwrite
    /\ (pc = "done" /\ prior_csv.exists) =>
          C8_OriginalFor(FileTickers(prior_csv), FileCells(prior_csv),
                         FileTickers(coverage_csv), FileCells(coverage_csv))

C8_NotClobberedFor(tickers, cells) ==
    \A j \in 1..Len(tickers) :
        cells[j] = IF tickers[j] \in DOMAIN existing_fact_sheets
                   THEN WithoutTrailingComma(existing_fact_sheets[tickers[j]])
                   ELSE StaticFactsheet(tickers[j])

\* C8 (amended): the run reads the prior file before overwriting it, and when
\* a row of the prior file carries for the ticker T of a regenerated row a
\* factsheet that is not empty after trimming and the removal of one trailing
\* comma, the regenerated row of T carries the value recovered from the prior
\* file, less one more trailing comma if it ends in one, and not the static
\* default; a regenerated row without such a prior row carries the static value.
C8_NotClobbered ==
    /\ ReadBeforeOverwrite
    /\ (pc = "done" /\ prior_csv.exists) =>
          C8_NotClobberedFor(FileTickers(coverage_csv), FileCells(coverage_csv))

\* the prior file had a corrected link for KT5, and the regenerated KT5 row,
\* merged from four records, carries it
C8_Witness ==
    /\ pc = "done"
    /\ prior_csv.exists
    /\ "KT5" \in DOMAIN existing_fact_sheets
    /\ existing_fact_sheets["KT5"] = "X"
    /\ \E k \in 1..Len(all_items) :
          /\ all_items[k][4] = "KT5"
          /\ all_items[k][5] = "Real-time (5 sec), NYC, LDN, SGP"
          /\ all_items[k][8] = "X"
    /\ StaticFactsheet("KT5") = factsheet_blue_chip

InRun == BeforeWrite \/ pc \in {"main_written", "done"}

C10_StaticFor(tickers, cells) ==
    \A k \in 1..Len(tickers) : cells[k] = StaticFactsheet(tickers[k])

\* C10: when the coverage file does not exist the reader does not raise and
\* returns an empty mapping, the run goes on to its end and writes both files,
\* and every row of both files carries the static factsheet of the catalogue
\* record of its ticker.
C10_MissingPriorFile ==
    /\ [](pc = "crashed" => prior_csv.exists)
    /\ []((InRun /\ ~prior_csv.exists) => DOMAIN existing_fact_sheets = {})
    /\ []((pc = "done" /\ ~prior_csv.exists) =>
            /\ coverage_csv.exists /\ filtered_csv.exists
            /\ Len(coverage_csv.lines) = 1 + Cardinality(BaseTickers(get_fixed_entries))
            /\ C10_StaticFor(FileTickers(coverage_csv), FileCells(coverage_csv))
            /\ C10_StaticFor(FileTickers(filtered_csv), FileCells(filtered_csv)))
    /\ ((pc = "loaded" /\ ~prior_csv.exists) ~> pc = "done")

\* a run that found the coverage file removed has ended with both files written
C10_Witness ==
    /\ pc = "done"
    /\ ~prior_csv.exists
    /\ runs = 2
    /\ edits = 1
    /\ Len(coverage_csv.lines) = 31
    /\ Len(filtered_csv.lines) = 31

----------------------------------------------------------------------------
(* Canonical record of a group (checked under SpecMerge) *)

StartsWith(s, prefix) ==
    /\ Len(prefix) <= Len(s)
    /\ SubSeq(s, 1, Len(prefix)) = prefix

\* the canonical record under "first record wins": the first record of the
\* group whose ticker is the base ticker, and the first record of the group
\* when there is none
FirstCanonical(variants, base_ticker) ==
    IF HasBaseVariant(variants, base_ticker)
    THEN variants[Min({k \in 1..Len(variants) : variants[k][4] = base_ticker})]
    ELSE variants[1]

FromCanonical(merged, canonical) ==
    /\ merged[1] = canonical[1]
    /\ merged[2] = canonical[2]
    /\ merged[3] = canonical[3]
    /\ StartsWith(merged[5], canonical[5])
    /\ merged[6] = canonical[6]
    /\ merged[7] = canonical[7]
    /\ merged[8] = canonical[8]

\* C11: the merge ends without error, and in every group the first record
\* wins: the brand, family, name, dissemination base, dates and factsheet of
\* the merged row are those of the first record of the group when no ticker
\* equals the base ticker, and those of the first record whose ticker equals
\* the base ticker when several do.
C11_FirstRecordWins ==
    pc = "merged" =>
        /\ Len(merged_items) = Cardinality(BaseTickers(fixed_items_with_fact_sheets))
        /\ \A k \in 1..Len(merged_items) :
              FromCanonical(merged_items[k],
                            FirstCanonical(Variants(fixed_items_with_fact_sheets,
                                                    merged_items[k][4]),
                                           merged_items[k][4]))

----------------------------------------------------------------------------
(* Repair of the doubled anchor opening (checked under Spec) *)

C12_RepairedFor(tickers, cells) ==
    \A k \in 1..Len(tickers) :
        LET rows == CleanRows(tickers, cells, tickers[k])
        IN  rows # {} =>
              /\ tickers[k] \in DOMAIN existing_fact_sheets
              /\ IF Contains(cells[Max(rows)], DoubleHref)
                 THEN ~Contains(existing_fact_sheets[tickers[k]], DoubleHref)
                 ELSE existing_fact_sheets[tickers[k]] = CleanValue(cells[Max(rows)])

\* C12: a factsheet value read from the prior file that contains the doubled
\* anchor opening is stored with the opening collapsed to a single one, so
\* that the stored value does not contain the doubled opening; a value without
\* it is stored as read, trimmed and without its trailing comma.
C12_DoubleAnchorRepaired ==
    (pc = "loaded" /\ prior_csv.exists) =>
        C12_RepairedFor(FileTickers(prior_csv), FileCells(prior_csv))

====
